---------------------------- MODULE Spec2Model ----------------------------
(***************************************************************************)
(* A model of the BOM radar scrapers:                                      *)
(*   - create_animated_radar and join_animated_gifs                        *)
(*     (bom_animated_radar_scraper.py),                                    *)
(*   - the scaling arithmetic of join_and_resize_images                    *)
(*     (bom_radar_scraper.py),                                             *)
(*   - the script body of bom_animated_radar_scraper.py, which calls the   *)
(*     first two.                                                          *)
(*                                                                         *)
(* Images are rasters.  A raster is held as a record                       *)
(*     [mode, w, h, bg, px]                                                *)
(* where px maps some coordinates <<x, y>> of the rectangle to their pixel *)
(* and every other coordinate of the rectangle holds the pixel bg.  This   *)
(* is only a compact way of writing the raster down (a 512 x 512 solid     *)
(* placeholder is one record with an empty px); GetPixel gives the pixel   *)
(* at any coordinate and every operation is defined on pixels.             *)
(***************************************************************************)
EXTENDS Integers, Sequences, FiniteSets, TLC

VARIABLES
    \* ---- create_animated_radar ----
    pc,             \* position in create_animated_radar
    urls,           \* get_image_urls' result: None or [frames |-> number of frame URLs]
    raw,            \* the four static layers as fetched (before placeholder and crop)
    background,     \* the local variables of the same names, after lines 80-95
    topography,
    locations,
    range_overlay,
    i,              \* index (0-based) of the next frame URL of the loop of line 98
    fetched,        \* fetch_image's result for every frame URL visited so far
    frames,         \* the list frames of line 97: per frame, the index of its URL, the
                    \* cropped radar layer, the composite and the quantized image
    output,         \* the file at output_gif_path
    result,         \* the return value
    \* ---- join_animated_gifs ----
    jpc,            \* position in join_animated_gifs
    gif1,           \* the file at gif1_path
    gif2,           \* the file at gif2_path
    orientation,    \* 'horizontal' or 'vertical'
    n_frames,       \* line 158
    ji,             \* loop index of line 161
    sought1,        \* the frame indices gif1.seek was called with
    sought2,        \* the frame indices gif2.seek was called with
    jframes,        \* the list frames of line 160
    joutput,        \* the file at output_path
    nwrites,        \* how many times output_path was written
    jresult,        \* the return value
    \* ---- join_and_resize_images ----
    rpc,            \* position in join_and_resize_images
    rin,            \* its inputs: the two image sizes, the orientation, the target
    rout,           \* what it computed
    \* ---- the script body (if __name__ == "__main__") ----
    mpc,            \* position in the script body
    args,           \* the parsed command line: [dev, arrangement]
    files,          \* the files of the working directory, by path
    calls,          \* the calls made so far, in order: function and arguments
    written,        \* the paths written during this run
    success_64,     \* the local variables of the same names
    success_128,
    join_success,
    exit_status     \* the statuses sys.exit was called with: none, or one

radarVars == <<pc, urls, raw, background, topography, locations, range_overlay,
               i, fetched, frames, output, result>>
joinVars == <<jpc, gif1, gif2, orientation, n_frames, ji, sought1, sought2,
              jframes, joutput, nwrites, jresult>>
resizeVars == <<rpc, rin, rout>>
mainVars == <<mpc, args, files, calls, written, success_64, success_128,
              join_success, exit_status>>
vars == <<radarVars, joinVars, resizeVars, mainVars>>

\* Python's None, where an image, a dictionary or a file may stand
None == [mode |-> "None"]
\* a return value: "None" while the function runs, then "True" or "False"
Running == "None"
\* the file at an output path
NoFile == [exists |-> FALSE]
File(fs) == [exists |-> TRUE, frames |-> fs]

Min(a, b) == IF a < b THEN a ELSE b
Max(a, b) == IF a > b THEN a ELSE b

-----------------------------------------------------------------------------
(* Bounds of the model *)

\* the largest number of frame URLs get_image_urls finds
MaxFrames == 2
\* the largest number of frames of an animated GIF handed to join_animated_gifs
MaxGifFrames == 2
\* the largest width and height of a GIF handed to join_animated_gifs, and of
\* an image handed to join_and_resize_images
MaxDim == 2
\* the largest target width and height of join_and_resize_images
MaxTarget == 3

-----------------------------------------------------------------------------
(* Pixels and rasters (PIL.Image) *)

Transparent == <<0, 0, 0, 0>>
Black == <<0, 0, 0, 255>>

\* PIL's "over" blend of one RGBA pixel src onto dst, in its integer
\* arithmetic: a fully transparent src leaves dst; otherwise the channels are
\* mixed with 7 bits of precision and rounded.
ShiftForDiv255(a) == (((a \div 256) + a) \div 256)

Over(dst, src) ==
    IF src[4] = 0 THEN dst
    ELSE LET blend == dst[4] * (255 - src[4])
             outa255 == src[4] * 255 + blend
             coef1 == (src[4] * 255 * 255 * 128) \div outa255
             coef2 == 255 * 128 - coef1
             ch(k) == ShiftForDiv255(src[k] * coef1 + dst[k] * coef2 + 128 * 128) \div 128
         IN  <<ch(1), ch(2), ch(3), ShiftForDiv255(outa255 + 128)>>

\* Image.new(mode, (w, h), color)
ImageNew(mode, w, h, color) ==
    [mode |-> mode, w |-> w, h |-> h, bg |-> color, px |-> <<>>]

Rect(w, h) == (0 .. w - 1) \X (0 .. h - 1)

Inside(img, c) == c[1] >= 0 /\ c[1] < img.w /\ c[2] >= 0 /\ c[2] < img.h

\* img.getpixel((x, y))
GetPixel(img, c) == IF c \in DOMAIN img.px THEN img.px[c] ELSE img.bg

\* img.crop((left, upper, right, lower)), for a box inside the image
Crop(img, left, upper, right, lower) ==
    LET kept == {c \in DOMAIN img.px :
                    c[1] >= left /\ c[1] < right /\ c[2] >= upper /\ c[2] < lower}
        dom == {<<c[1] - left, c[2] - upper>> : c \in kept}
    IN  [mode |-> img.mode, w |-> right - left, h |-> lower - upper, bg |-> img.bg,
         px |-> [c \in dom |-> img.px[<<c[1] + left, c[2] + upper>>]]]

\* dst.paste(src, (ox, oy)) without a mask: the pixels of src, alpha included,
\* replace those of dst where src lies; what falls outside dst is clipped.
Paste(dst, src, ox, oy) ==
    IF ox = 0 /\ oy = 0 /\ src.w >= dst.w /\ src.h >= dst.h
    THEN [dst EXCEPT !.bg = src.bg,
                     !.px = [c \in {d \in DOMAIN src.px : Inside(dst, d)} |-> src.px[c]]]
    ELSE LET region == {c \in (ox .. Min(dst.w, ox + src.w) - 1)
                               \X (oy .. Min(dst.h, oy + src.h) - 1) : TRUE}
         IN  [dst EXCEPT !.px = [c \in (DOMAIN dst.px) \cup region |->
                                    IF c \in region
                                    THEN GetPixel(src, <<c[1] - ox, c[2] - oy>>)
                                    ELSE dst.px[c]]]

\* dst.alpha_composite(src), the in-place method with dest = (0, 0): every
\* pixel of dst that src covers becomes Over(dst pixel, src pixel).
alpha_composite(dst, src) ==
    IF src.w >= dst.w /\ src.h >= dst.h
    THEN [dst EXCEPT !.bg = Over(dst.bg, src.bg),
                     !.px = [c \in (DOMAIN dst.px)
                                   \cup {d \in DOMAIN src.px : Inside(dst, d)} |->
                                Over(GetPixel(dst, c), GetPixel(src, c))]]
    ELSE LET region == Rect(Min(dst.w, src.w), Min(dst.h, src.h))
         IN  [dst EXCEPT !.px = [c \in (DOMAIN dst.px) \cup region |->
                                    IF c \in region
                                    THEN Over(GetPixel(dst, c), GetPixel(src, c))
                                    ELSE dst.px[c]]]

\* img.convert("RGB"): the alpha channel is dropped
DropAlpha(p) == <<p[1], p[2], p[3]>>

ConvertRGB(img) ==
    [img EXCEPT !.mode = "RGB", !.bg = DropAlpha(img.bg),
                !.px = [c \in DOMAIN img.px |-> DropAlpha(img.px[c])]]

\* img.quantize(colors=256, method=MAXCOVERAGE, dither=NONE): a paletted
\* image of the same size.  The rasters of this model hold fewer than 256
\* colours, so the palette keeps every one of them.
Quantize(img) == [img EXCEPT !.mode = "P"]

\* Two records that are the same raster.
SameImage(a, b) ==
    /\ a.w = b.w /\ a.h = b.h
    /\ LET dom == (DOMAIN a.px) \cup (DOMAIN b.px)
       IN  /\ \A c \in dom : GetPixel(a, c) = GetPixel(b, c)
           /\ Cardinality(dom) < a.w * a.h => a.bg = b.bg

-----------------------------------------------------------------------------
(* Each specification below runs one function; the variables of the other
   functions stay as they are here *)

\* the static layers of a radar product
Roles == {"background", "topography", "locations", "range"}

JoinIdle ==
    /\ jpc = "idle" /\ gif1 = None /\ gif2 = None /\ orientation = "None"
    /\ n_frames = 0 /\ ji = 0 /\ sought1 = {} /\ sought2 = {}
    /\ jframes = <<>> /\ joutput = NoFile /\ nwrites = 0 /\ jresult = Running

ResizeIdle == rpc = "idle" /\ rin = None /\ rout = None

MainIdle ==
    /\ mpc = "idle" /\ args = None /\ files = None /\ calls = <<>> /\ written = {}
    /\ success_64 = Running /\ success_128 = Running /\ join_success = Running
    /\ exit_status = <<>>

RadarIdle ==
    /\ pc = "idle" /\ urls = None /\ raw = [r \in Roles |-> None] /\ background = None
    /\ topography = None /\ locations = None /\ range_overlay = None
    /\ i = 0 /\ fetched = <<>> /\ frames = <<>> /\ output = NoFile /\ result = Running

-----------------------------------------------------------------------------
(* What the network returns *)

\* the canvas sizes <<width, height>> of the images the server may return
Sizes == {<<2, 16>>, <<3, 18>>, <<512, 512>>}

Palette == << <<255, 0, 0, 255>>, Transparent, <<0, 0, 255, 128>>,
              <<0, 255, 0, 255>>, <<255, 255, 0, 64>> >>

\* the pixel of the k-th picture at <<x, y>>
PatPixel(k, x, y) == Palette[((k + x + 2 * y) % Len(Palette)) + 1]

\* the coordinates a decoded picture is written down at; it is uniform elsewhere
Window(w, h) == {c \in (0 .. Min(w, 3) - 1) \X {0, 1, 15, 16, 17} : c[2] < h}

\* the k-th picture decoded at size sz, as Image.open(...).convert("RGBA") gives it
Render(sz, k) ==
    [mode |-> "RGBA", w |-> sz[1], h |-> sz[2], bg |-> PatPixel(k, 0, 2),
     px |-> [c \in Window(sz[1], sz[2]) |-> PatPixel(k, c[1], c[2])]]

RoleNo(r) == CASE r = "background" -> 0
               [] r = "topography" -> 1
               [] r = "locations" -> 2
               [] r = "range" -> 3

\* fetch_image(url, name): an RGBA image, or None when the request or the
\* decoding failed.  k names the picture behind the URL.
fetch_image(k) == {None} \cup {Render(sz, k) : sz \in Sizes}

-----------------------------------------------------------------------------
(* create_animated_radar *)

crop_pixels == 16
PlaceholderSide == 512

\* crop_img, were it to crop an image of exactly crop_pixels rows too
crop_img_at_least(img) ==
    IF img # None /\ img.h >= crop_pixels
    THEN Crop(img, 0, crop_pixels, img.w, img.h)
    ELSE img

\* the helper crop_img of lines 86-89
crop_img(img) ==
    IF img # None /\ img.h > crop_pixels
    THEN Crop(img, 0, crop_pixels, img.w, img.h)
    ELSE img

\* lines 80-82: the black placeholder for a background that was not fetched
background_or_placeholder(b) ==
    IF b # None THEN b
    ELSE ImageNew("RGBA", PlaceholderSide, PlaceholderSide, Black)

Size(img) == <<img.w, img.h>>

\* the compositing, were locations blended before the radar layer
composite_locations_first(bg, topo, radar_layer, loc, rng) ==
    LET c0 == Paste(ImageNew("RGBA", bg.w, bg.h, Transparent), bg, 0, 0)
        c1 == IF topo # None THEN alpha_composite(c0, topo) ELSE c0
        c2 == IF loc # None THEN alpha_composite(c1, loc) ELSE c1
        c3 == IF radar_layer # None THEN alpha_composite(c2, radar_layer) ELSE c2
    IN  IF rng # None THEN alpha_composite(c3, rng) ELSE c3

\* lines 109-122: background, then topography, radar, locations, range
composite_layers(bg, topo, radar_layer, loc, rng) ==
    LET c0 == Paste(ImageNew("RGBA", bg.w, bg.h, Transparent), bg, 0, 0)
        c1 == IF topo # None THEN alpha_composite(c0, topo) ELSE c0
        c2 == IF radar_layer # None THEN alpha_composite(c1, radar_layer) ELSE c1
        c3 == IF loc # None THEN alpha_composite(c2, loc) ELSE c2
    IN  IF rng # None THEN alpha_composite(c3, rng) ELSE c3

\* some layer handed to alpha_composite does not have the composite's size
Mismatched(bg, layers) == \E l \in layers : l # None /\ Size(l) # Size(bg)

RadarInit ==
    /\ pc = "get_urls"
    /\ urls = None
    /\ raw = [r \in Roles |-> None]
    /\ background = None
    /\ topography = None
    /\ locations = None
    /\ range_overlay = None
    /\ i = 0
    /\ fetched = <<>>
    /\ frames = <<>>
    /\ output = NoFile
    /\ result = Running

\* lines 68-70: get_image_urls gives None (the page was not fetched, or holds
\* no frame) or the URLs of n >= 1 frames
GetUrls ==
    /\ pc = "get_urls"
    /\ \E n \in 0 .. MaxFrames :
          IF n = 0
          THEN /\ urls' = None
               /\ result' = "False"
               /\ pc' = "done"
          ELSE /\ urls' = [frames |-> n]
               /\ result' = result
               /\ pc' = "frames"
    /\ UNCHANGED <<raw, background, topography, locations, range_overlay, i,
                   fetched, frames, output>>
    /\ UNCHANGED <<joinVars, resizeVars, mainVars>>

\* lines 73-95: the static layers are fetched, a missing background is
\* replaced, and all four are cropped
DownloadStaticLayers ==
    /\ pc = "frames"
    /\ background = None
    /\ \E b \in fetch_image(RoleNo("background")),
          t \in fetch_image(RoleNo("topography")),
          l \in fetch_image(RoleNo("locations")),
          r \in fetch_image(RoleNo("range")) :
          /\ raw' = [background |-> b, topography |-> t, locations |-> l, range |-> r]
          /\ background' = crop_img(background_or_placeholder(b))
          /\ topography' = crop_img(t)
          /\ locations' = crop_img(l)
          /\ range_overlay' = crop_img(r)
    /\ UNCHANGED <<pc, urls, i, fetched, frames, output, result>>
    /\ UNCHANGED <<joinVars, resizeVars, mainVars>>

InLoop == pc = "frames" /\ background # None /\ i < urls.frames

\* SkipFrame, were a frame that was not fetched shown as the bare background
SkipFrame_blank ==
    /\ InLoop
    /\ fetched' = Append(fetched, None)
    /\ frames' = Append(frames, [index |-> i, radar_layer |-> None,
                                 flattened |-> background,
                                 image |-> Quantize(ConvertRGB(background))])
    /\ i' = i + 1
    /\ UNCHANGED <<pc, urls, raw, background, topography, locations,
                   range_overlay, output, result>>
    /\ UNCHANGED <<joinVars, resizeVars, mainVars>>

\* lines 100-104: the frame was not fetched and is skipped
SkipFrame ==
    /\ InLoop
    /\ fetched' = Append(fetched, None)
    /\ i' = i + 1
    /\ UNCHANGED <<pc, urls, raw, background, topography, locations,
                   range_overlay, frames, output, result>>
    /\ UNCHANGED <<joinVars, resizeVars, mainVars>>

\* the objects after lines 109-122, were the layers composited onto the
\* background itself instead of onto a buffer of their own
composite_frame_onto_background(bg, topo, radar_layer, loc, rng) ==
    LET c == composite_layers(bg, topo, radar_layer, loc, rng)
    IN  [composite |-> c, background |-> c, topography |-> topo,
         locations |-> loc, range_overlay |-> rng]

\* the objects after lines 109-122.  Image.new allocates the buffer
\* `composite`; paste and the alpha_composite calls write into that buffer
\* only, and read the background and the overlays.
composite_frame(bg, topo, radar_layer, loc, rng) ==
    [composite |-> composite_layers(bg, topo, radar_layer, loc, rng),
     background |-> bg, topography |-> topo,
     locations |-> loc, range_overlay |-> rng]

\* lines 100-126: the frame was fetched, is cropped, composited and appended
CompositeFrame ==
    /\ InLoop
    /\ \E f \in fetch_image(4 + i) \ {None} :
          LET radar_layer == crop_img(f)
              after == composite_frame(background, topography, radar_layer,
                                       locations, range_overlay)
              frame_img == Quantize(ConvertRGB(after.composite))
          IN  /\ fetched' = Append(fetched, f)
              /\ frames' = Append(frames, [index |-> i, radar_layer |-> radar_layer,
                                           flattened |-> after.composite,
                                           image |-> frame_img])
              /\ background' = after.background
              /\ topography' = after.topography
              /\ locations' = after.locations
              /\ range_overlay' = after.range_overlay
    /\ i' = i + 1
    /\ UNCHANGED <<pc, urls, raw, output, result>>
    /\ UNCHANGED <<joinVars, resizeVars, mainVars>>

\* lines 100-122 and 143-145: alpha_composite is handed a layer of another
\* size.  What Pillow does with it is not part of this repository: either it
\* composites where the two overlap (alpha_composite above, in CompositeFrame)
\* or it raises, and then the one handler of the function, which encloses the
\* whole loop, returns False.
CompositeRaises ==
    /\ InLoop
    /\ \E f \in fetch_image(4 + i) \ {None} :
          /\ Mismatched(background, {topography, crop_img(f), locations, range_overlay})
          /\ fetched' = Append(fetched, f)
    /\ result' = "False"
    /\ pc' = "done"
    /\ UNCHANGED <<urls, raw, background, topography, locations, range_overlay,
                   i, frames, output>>
    /\ UNCHANGED <<joinVars, resizeVars, mainVars>>

\* SaveGif, were the list saved without the test of line 128
SaveGif_unguarded ==
    /\ pc = "frames" /\ background # None /\ i = urls.frames
    /\ output' = File(frames) /\ result' = "True"
    /\ pc' = "done"
    /\ UNCHANGED <<urls, raw, background, topography, locations, range_overlay,
                   i, fetched, frames>>
    /\ UNCHANGED <<joinVars, resizeVars, mainVars>>

\* lines 128-141: the frames are saved, if there are any
SaveGif ==
    /\ pc = "frames" /\ background # None /\ i = urls.frames
    /\ IF frames # <<>>
       THEN output' = File(frames) /\ result' = "True"
       ELSE output' = output /\ result' = "False"
    /\ pc' = "done"
    /\ UNCHANGED <<urls, raw, background, topography, locations, range_overlay,
                   i, fetched, frames>>
    /\ UNCHANGED <<joinVars, resizeVars, mainVars>>

RadarNext ==
    \/ GetUrls
    \/ DownloadStaticLayers
    \/ SkipFrame
    \/ CompositeFrame
    \/ CompositeRaises
    \/ SaveGif

\* one call of create_animated_radar
InitRadar == RadarInit /\ JoinIdle /\ ResizeIdle /\ MainIdle

SpecRadar == InitRadar /\ [][RadarNext]_vars

-----------------------------------------------------------------------------
(* join_animated_gifs *)

separator_size == 1

\* the files that may lie at gif1_path and gif2_path: one that Image.open
\* cannot read, or an animated GIF of n frames on a canvas of w x h whose
\* frames from index bad on cannot be decoded (bad = n: all of them can)
GifFiles ==
    {[readable |-> FALSE]}
    \cup {g \in [readable : {TRUE}, w : 1 .. MaxDim, h : 1 .. MaxDim,
                 n : 0 .. MaxGifFrames, bad : 0 .. MaxGifFrames] : g.bad <= g.n}

\* gif.seek(j); gif.convert("RGBA"), for the GIF numbered no (1 or 2)
DecodeFrame(g, no, j) == Render(<<g.w, g.h>>, 10 * no + j)

\* the frame count, were the loop to run over the longer input
reconciled_frames_longer(g1, g2) == Max(g1.n, g2.n)

\* line 158
reconciled_frames(g1, g2) == Min(g1.n, g2.n)

\* the canvas, were the second frame pasted without the separator offset
join_frames_abutting(img1, img2, orient) ==
    IF orient = "vertical"
    THEN LET total_width == Max(img1.w, img2.w)
             total_height == img1.h + img2.h + separator_size
             new_img == ImageNew("RGBA", total_width, total_height, Black)
         IN  Paste(Paste(new_img, img1, 0, 0), img2, 0, img1.h)
    ELSE LET total_width == img1.w + img2.w + separator_size
             total_height == Max(img1.h, img2.h)
             new_img == ImageNew("RGBA", total_width, total_height, Black)
         IN  Paste(Paste(new_img, img1, 0, 0), img2, img1.w, 0)

\* lines 168-183: the canvas of one frame pair
join_frames(img1, img2, orient) ==
    IF orient = "vertical"
    THEN LET total_width == Max(img1.w, img2.w)
             total_height == img1.h + img2.h + separator_size
             new_img == ImageNew("RGBA", total_width, total_height, Black)
         IN  Paste(Paste(new_img, img1, 0, 0), img2, 0, img1.h + separator_size)
    ELSE LET total_width == img1.w + img2.w + separator_size
             total_height == Max(img1.h, img2.h)
             new_img == ImageNew("RGBA", total_width, total_height, Black)
         IN  Paste(Paste(new_img, img1, 0, 0), img2, img1.w + separator_size, 0)

InitJoin ==
    /\ jpc = "open"
    /\ gif1 \in GifFiles
    /\ gif2 \in GifFiles
    /\ orientation \in {"horizontal", "vertical"}
    /\ n_frames = 0 /\ ji = 0 /\ sought1 = {} /\ sought2 = {}
    /\ jframes = <<>> /\ joutput = NoFile /\ nwrites = 0 /\ jresult = Running
    /\ RadarIdle /\ ResizeIdle /\ MainIdle

\* lines 153-154 and 201-203: a file cannot be opened
OpenFails ==
    /\ jpc = "open"
    /\ ~gif1.readable \/ ~gif2.readable
    /\ jresult' = "False"
    /\ jpc' = "done"
    /\ UNCHANGED <<gif1, gif2, orientation, n_frames, ji, sought1, sought2,
                   jframes, joutput, nwrites>>
    /\ UNCHANGED <<radarVars, resizeVars, mainVars>>

\* lines 153-160
OpenGifs ==
    /\ jpc = "open"
    /\ gif1.readable /\ gif2.readable
    /\ n_frames' = reconciled_frames(gif1, gif2)
    /\ jpc' = "loop"
    /\ UNCHANGED <<gif1, gif2, orientation, ji, sought1, sought2, jframes,
                   joutput, nwrites, jresult>>
    /\ UNCHANGED <<radarVars, resizeVars, mainVars>>

\* gif.seek(j) raises: the frame is not there or cannot be decoded
SeekFails(g, j) == j >= g.bad \/ j >= g.n

\* lines 162-163 and 201-203: a seek raises
JoinFrameFails ==
    /\ jpc = "loop" /\ ji < n_frames
    /\ SeekFails(gif1, ji) \/ SeekFails(gif2, ji)
    /\ sought1' = sought1 \cup {ji}
    /\ sought2' = IF SeekFails(gif1, ji) THEN sought2 ELSE sought2 \cup {ji}
    /\ jresult' = "False"
    /\ jpc' = "done"
    /\ UNCHANGED <<gif1, gif2, orientation, n_frames, ji, jframes, joutput, nwrites>>
    /\ UNCHANGED <<radarVars, resizeVars, mainVars>>

\* JoinFrame, were the file rewritten after every frame pair
JoinFrame_streams ==
    /\ jpc = "loop" /\ ji < n_frames
    /\ ~SeekFails(gif1, ji) /\ ~SeekFails(gif2, ji)
    /\ sought1' = sought1 \cup {ji}
    /\ sought2' = sought2 \cup {ji}
    /\ LET new_img == join_frames(DecodeFrame(gif1, 1, ji), DecodeFrame(gif2, 2, ji),
                                  orientation)
           frame_img == Quantize(ConvertRGB(new_img))
       IN  /\ jframes' = Append(jframes, [index |-> ji, image |-> frame_img])
           /\ joutput' = File(jframes')
    /\ nwrites' = nwrites + 1
    /\ ji' = ji + 1
    /\ UNCHANGED <<jpc, gif1, gif2, orientation, n_frames, jresult>>
    /\ UNCHANGED <<radarVars, resizeVars, mainVars>>

\* lines 162-187: one frame pair is decoded, joined, quantized and appended
JoinFrame ==
    /\ jpc = "loop" /\ ji < n_frames
    /\ ~SeekFails(gif1, ji) /\ ~SeekFails(gif2, ji)
    /\ sought1' = sought1 \cup {ji}
    /\ sought2' = sought2 \cup {ji}
    /\ LET new_img == join_frames(DecodeFrame(gif1, 1, ji), DecodeFrame(gif2, 2, ji),
                                  orientation)
           frame_img == Quantize(ConvertRGB(new_img))
       IN  jframes' = Append(jframes, [index |-> ji, image |-> frame_img])
    /\ ji' = ji + 1
    /\ UNCHANGED <<jpc, gif1, gif2, orientation, n_frames, joutput, nwrites, jresult>>
    /\ UNCHANGED <<radarVars, resizeVars, mainVars>>

\* lines 189-199: the frames are saved, if there are any
JoinSave ==
    /\ jpc = "loop" /\ ji = n_frames
    /\ IF jframes # <<>>
       THEN /\ joutput' = File(jframes)
            /\ nwrites' = nwrites + 1
            /\ jresult' = "True"
       ELSE /\ joutput' = joutput
            /\ nwrites' = nwrites
            /\ jresult' = "False"
    /\ jpc' = "done"
    /\ UNCHANGED <<gif1, gif2, orientation, n_frames, ji, sought1, sought2, jframes>>
    /\ UNCHANGED <<radarVars, resizeVars, mainVars>>

JoinNext ==
    \/ OpenFails
    \/ OpenGifs
    \/ JoinFrameFails
    \/ JoinFrame
    \/ JoinSave

\* one call of join_animated_gifs
SpecJoin == InitJoin /\ [][JoinNext]_vars

-----------------------------------------------------------------------------
(* Properties of create_animated_radar *)

\* the coordinates a raster is inspected at: all of them, or, for a large
\* raster, the written ones, the top left corner region and the far edges
SampleCoords(img) ==
    IF img.w * img.h <= 64
    THEN Rect(img.w, img.h)
    ELSE (DOMAIN img.px)
         \cup {c \in {0, 1, 2, 3, img.w - 1} \X {0, 1, 2, 3, img.h - 1} : TRUE}

\* one step of the blend at coordinate c: a layer that is absent, or does not
\* reach c, contributes nothing
Blend(acc, layer, c) ==
    IF layer # None /\ Inside(layer, c) THEN Over(acc, GetPixel(layer, c)) ELSE acc

BlendInOrder(bg, topo, radar_layer, loc, rng, c) ==
    Blend(Blend(Blend(Blend(GetPixel(bg, c), topo, c), radar_layer, c), loc, c), rng, c)

FetchedOk == {k \in 1 .. Len(fetched) : fetched[k] # None}

\* C2: every composited frame has the background's size and, at every
\* coordinate, the pixel got by blending topography, radar, locations and range
\* (those present) in that order over the background pixel; where the radar
\* layer is fully transparent the pixel is what the other layers give.
C2_CompositeInOrder ==
    \A k \in 1 .. Len(frames) :
        LET fr == frames[k]
        IN  /\ Size(fr.flattened) = Size(background)
            /\ \A c \in SampleCoords(fr.flattened) :
                  /\ GetPixel(fr.flattened, c) =
                        BlendInOrder(background, topography, fr.radar_layer,
                                     locations, range_overlay, c)
                  /\ (Inside(fr.radar_layer, c) /\ GetPixel(fr.radar_layer, c)[4] = 0)
                        => GetPixel(fr.flattened, c) =
                              BlendInOrder(background, topography, None,
                                           locations, range_overlay, c)

\* a frame was composited with the topography absent, over locations and
\* range, at a coordinate where a half-transparent radar pixel lies under an
\* opaque locations pixel
C2_Witness ==
    /\ Len(frames) >= 1
    /\ topography = None /\ locations # None /\ range_overlay # None
    /\ ~Mismatched(background, {frames[1].radar_layer, locations, range_overlay})
    /\ \E c \in SampleCoords(frames[1].flattened) :
          /\ GetPixel(frames[1].radar_layer, c)[4] = 128
          /\ GetPixel(locations, c)[4] = 255

\* C3: when no frame is produced (no frame URL was found, or every frame
\* fetch failed) the function returns False and the output file is not
\* written; a file that is written holds at least one frame.
C3_NoFramesNoFile ==
    /\ (pc = "done" /\ FetchedOk = {}) => (result = "False" /\ output = NoFile)
    /\ output.exists => Len(output.frames) >= 1

\* every frame URL was visited and every fetch failed
C3_Witness ==
    /\ pc = "done" /\ urls # None
    /\ Len(fetched) = urls.frames /\ Len(fetched) >= 2 /\ FetchedOk = {}

\* the stack of frame image f, as composited: background (or placeholder),
\* static overlays and the frame's radar layer, all after cropping
SharedCanvas ==
    \A k \in FetchedOk :
        ~Mismatched(background, {topography, crop_img(fetched[k]), locations,
                                 range_overlay})

\* C4: with all layers of one canvas size, the frames assembled are those of
\* the URLs whose fetch succeeded, in the order of the URLs, and the function
\* returns True and saves them when at least one fetch succeeded.
C4_FetchedFramesInOrder ==
    SharedCanvas =>
        /\ Len(frames) = Cardinality(FetchedOk)
        /\ \A j \in 1 .. Len(frames) :
              /\ frames[j].index + 1 \in FetchedOk
              /\ frames[j].radar_layer = crop_img(fetched[frames[j].index + 1])
              /\ j > 1 => frames[j - 1].index < frames[j].index
        /\ (pc = "done" /\ FetchedOk # {})
              => (result = "True" /\ output = File(frames))

\* the first fetch failed, the second succeeded, and the function returned
C4_Witness ==
    /\ pc = "done" /\ SharedCanvas
    /\ Len(fetched) = 2 /\ fetched[1] = None /\ fetched[2] # None
    /\ result = "True"

\* the layers other than the background, as fetched, share one canvas size
OthersShareCanvas ==
    \A a, b \in ({raw.topography, raw.locations, raw.range}
                  \cup {fetched[k] : k \in FetchedOk}) \ {None} : Size(a) = Size(b)

\* C5 (as claimed): when the background is not fetched, the placeholder has
\* the size of the product's frames and overlays, and the function succeeds
\* whenever a radar frame was fetched.
C5_PlaceholderHasFrameSize ==
    (raw.background = None /\ background # None /\ OthersShareCanvas)
    => /\ \A l \in ({topography, locations, range_overlay}
                     \cup {crop_img(fetched[k]) : k \in FetchedOk}) \ {None} :
             Size(background) = Size(l)
       /\ (pc = "done" /\ FetchedOk # {}) => result = "True"

\* the image img with its top crop_pixels rows removed, or img itself when it
\* has no more rows than that
TopRowsRemoved(img, out) ==
    IF img.h > crop_pixels
    THEN /\ out.w = img.w /\ out.h = img.h - crop_pixels
         /\ \A c \in SampleCoords(out) :
               GetPixel(out, c) = GetPixel(img, <<c[1], c[2] + crop_pixels>>)
    ELSE SameImage(out, img)

\* C8: for layers of one canvas size, every layer loses its top 16 rows when
\* it is higher than 16 rows and is left alone otherwise, the cropped layers
\* again share one size, and the composite of the cropped layers is the
\* composite of the uncropped layers with its top 16 rows removed.
C8_CropCommutes ==
    \A k \in 1 .. Len(frames) :
        LET fr == frames[k]
            f == fetched[fr.index + 1]
            ub == background_or_placeholder(raw.background)
        IN  ~Mismatched(ub, {raw.topography, f, raw.locations, raw.range})
            => /\ TopRowsRemoved(ub, background)
               /\ raw.topography # None => TopRowsRemoved(raw.topography, topography)
               /\ raw.locations # None => TopRowsRemoved(raw.locations, locations)
               /\ raw.range # None => TopRowsRemoved(raw.range, range_overlay)
               /\ TopRowsRemoved(f, fr.radar_layer)
               /\ ~Mismatched(background, {topography, fr.radar_layer, locations,
                                           range_overlay})
               /\ TopRowsRemoved(composite_layers(ub, raw.topography, f,
                                                  raw.locations, raw.range),
                                 fr.flattened)

\* a frame of 18 rows was composited over a fetched background and a
\* topography of the same size
C8_Witness ==
    /\ Len(frames) >= 1
    /\ raw.background # None /\ raw.background.h = 18
    /\ raw.topography # None /\ raw.range # None
    /\ ~Mismatched(raw.background, {raw.topography, fetched[frames[1].index + 1],
                                    raw.locations, raw.range})

\* C9 (as claimed): a layer of another size met while compositing a frame
\* drops that frame only: every frame URL is still visited, the frames
\* assembled are those fetched and composited without a mismatch, and the
\* function succeeds when there is one.
C9_MismatchDropsOneFrame ==
    (pc = "done" /\ urls # None)
    => LET sound == {k \in FetchedOk :
                        ~Mismatched(background, {topography, crop_img(fetched[k]),
                                                 locations, range_overlay})}
       IN  /\ Len(fetched) = urls.frames
           /\ {frames[j].index + 1 : j \in 1 .. Len(frames)} = sound
           /\ sound # {} => result = "True"

\* the static layers as they were when the loop began: what was fetched (or
\* the placeholder), cropped
PristineLayers ==
    [background |-> crop_img(background_or_placeholder(raw.background)),
     topography |-> crop_img(raw.topography),
     locations |-> crop_img(raw.locations),
     range_overlay |-> crop_img(raw.range)]

\* C11: every frame appended by create_animated_radar has exactly the size of
\* the cropped background (or cropped placeholder), so all frames of one
\* artifact share one canvas size; and compositing a frame never changes the
\* background or the static overlays: during and after the loop they are
\* still the cropped layers the loop began with, and every frame appended is
\* the composite of those unchanged layers with its own radar layer.
C11_FramesShareCanvasAndLayersKept ==
    background # None =>
        /\ background = PristineLayers.background
        /\ topography = PristineLayers.topography
        /\ locations = PristineLayers.locations
        /\ range_overlay = PristineLayers.range_overlay
        /\ \A k \in 1 .. Len(frames) :
              /\ Size(frames[k].flattened) = Size(PristineLayers.background)
              /\ Size(frames[k].image) = Size(PristineLayers.background)
              /\ frames[k].flattened =
                     composite_layers(PristineLayers.background,
                                      PristineLayers.topography,
                                      frames[k].radar_layer,
                                      PristineLayers.locations,
                                      PristineLayers.range_overlay)
        /\ output.exists =>
              \A k \in 1 .. Len(output.frames) :
                  Size(output.frames[k].image) = Size(PristineLayers.background)

\* two frames were composited and saved, over a fetched background with an
\* overlay above it, and the first composite is not the bare background
C11_Witness ==
    /\ pc = "done" /\ result = "True" /\ Len(output.frames) = 2
    /\ raw.background # None /\ topography # None
    /\ ~SameImage(frames[1].flattened, background)

-----------------------------------------------------------------------------
(* Properties of join_animated_gifs *)

BothReadable == gif1.readable /\ gif2.readable

\* C1: for two readable inputs of F1 and F2 frames no index from min(F1, F2)
\* on is ever sought in either; if all their frames decode and F1, F2 >= 1 the
\* join succeeds and the file written holds exactly min(F1, F2) frames, the
\* i-th joined from the i-th frame of the first and the i-th of the second.
C1_MinFrames ==
    BothReadable =>
        LET m == Min(gif1.n, gif2.n)
        IN  /\ sought1 \subseteq 0 .. m - 1
            /\ sought2 \subseteq 0 .. m - 1
            /\ (jpc = "done" /\ m >= 1 /\ gif1.bad = gif1.n /\ gif2.bad = gif2.n)
                  => /\ jresult = "True"
                     /\ joutput.exists
                     /\ Len(joutput.frames) = m
                     /\ sought1 = 0 .. m - 1 /\ sought2 = 0 .. m - 1
                     /\ \A k \in 1 .. m :
                           /\ joutput.frames[k].index = k - 1
                           /\ joutput.frames[k].image =
                                 Quantize(ConvertRGB(join_frames(
                                     DecodeFrame(gif1, 1, k - 1),
                                     DecodeFrame(gif2, 2, k - 1), orientation)))

\* a one-frame input was joined with a two-frame input
C1_Witness ==
    /\ jpc = "done" /\ BothReadable /\ jresult = "True"
    /\ gif1.n = 1 /\ gif2.n = 2 /\ gif2.bad = 2
    /\ Len(joutput.frames) = 1

JoinMustFail ==
    \/ ~BothReadable
    \/ Min(gif1.n, gif2.n) = 0
    \/ gif1.bad < Min(gif1.n, gif2.n)
    \/ gif2.bad < Min(gif1.n, gif2.n)

\* C6: the output file is written at most once, and only by a join that has
\* composed every reconciled frame and returns True; a join whose input cannot
\* be opened, whose frame iteration fails or that has no reconciled frame
\* returns False and leaves the output path unwritten.
C6_WrittenOnceAtTheEnd ==
    /\ nwrites <= 1
    /\ (nwrites = 0) = (joutput = NoFile)
    /\ joutput.exists =>
          /\ jpc = "done" /\ jresult = "True"
          /\ n_frames >= 1 /\ Len(joutput.frames) = n_frames
    /\ (jpc = "done" /\ JoinMustFail) => (jresult = "False" /\ joutput = NoFile)

\* the second frame of an input could not be decoded after the first pair
\* had been composed
C6_Witness ==
    /\ jpc = "done" /\ BothReadable
    /\ Len(jframes) = 1 /\ gif2.bad = 1 /\ Min(gif1.n, gif2.n) = 2
    /\ jresult = "False" /\ joutput = NoFile

\* C10: the canvas of a frame pair of sizes (w1, h1) and (w2, h2) is
\* (w1 + w2 + 1, max(h1, h2)) side by side and (max(w1, w2), h1 + h2 + 1)
\* stacked; it shows the first frame at (0, 0) and the second at (w1 + 1, 0),
\* or (0, h1 + 1), both whole; the column w1, or row h1, between them is black.
C10_CanvasGeometry ==
    \A k \in 1 .. Len(jframes) :
        LET a == ConvertRGB(DecodeFrame(gif1, 1, jframes[k].index))
            b == ConvertRGB(DecodeFrame(gif2, 2, jframes[k].index))
            im == jframes[k].image
            ox == IF orientation = "vertical" THEN 0 ELSE a.w + 1
            oy == IF orientation = "vertical" THEN a.h + 1 ELSE 0
            band == IF orientation = "vertical"
                    THEN {c \in Rect(im.w, im.h) : c[2] = a.h}
                    ELSE {c \in Rect(im.w, im.h) : c[1] = a.w}
        IN  /\ Size(im) = IF orientation = "vertical"
                          THEN <<Max(a.w, b.w), a.h + b.h + 1>>
                          ELSE <<a.w + b.w + 1, Max(a.h, b.h)>>
            /\ \A c \in Rect(a.w, a.h) : Inside(im, c) /\ GetPixel(im, c) = GetPixel(a, c)
            /\ \A c \in Rect(b.w, b.h) :
                  /\ Inside(im, <<c[1] + ox, c[2] + oy>>)
                  /\ GetPixel(im, <<c[1] + ox, c[2] + oy>>) = GetPixel(b, c)
            /\ band # {}
            /\ \A c \in band : GetPixel(im, c) = <<0, 0, 0>>

\* two frames of different sizes were joined side by side
C10_Witness ==
    /\ Len(jframes) >= 1 /\ orientation = "horizontal"
    /\ gif1.w = 2 /\ gif1.h = 1 /\ gif2.w = 1 /\ gif2.h = 2

-----------------------------------------------------------------------------
(* join_and_resize_images (bom_radar_scraper.py) *)

\* lines 36-57: the size of the canvas holding both images
joined_size(w1, h1, w2, h2, orient) ==
    IF orient = "vertical"
    THEN <<Max(w1, w2), h1 + h2>>
    ELSE <<w1 + w2, Max(h1, h2)>>

\* the scaling, were the comparison of the two ratios reversed
scaled_size_wrong_axis(w, h, target_width, target_height) ==
    IF w * target_height < target_width * h
    THEN <<target_width, (target_width * h) \div w>>
    ELSE <<(target_height * w) \div h, target_height>>

\* lines 60-68.  The code divides in double precision and truncates with
\* int(); for operands up to 8, which covers the bounds of this model, that
\* gives the quotients below (the comparison of the two ratios is exact, and
\* so is the truncation: int(target_width / (w / h)) first differs from
\* (target_width * h) \div w at w = 9, h = 7, target_width = 9, where it is
\* 6 and not 7).
scaled_size(w, h, target_width, target_height) ==
    IF w * target_height > target_width * h
    THEN <<target_width, (target_width * h) \div w>>
    ELSE <<(target_height * w) \div h, target_height>>

InitResize ==
    /\ rpc = "call"
    /\ rin \in [w1 : 1 .. MaxDim, h1 : 1 .. MaxDim, w2 : 1 .. MaxDim, h2 : 1 .. MaxDim,
                orientation : {"horizontal", "vertical"},
                target_width : 1 .. MaxTarget, target_height : 1 .. MaxTarget]
    /\ rout = None
    /\ RadarIdle /\ JoinIdle /\ MainIdle

Scaled(total, new, saved) ==
    [total_width |-> total[1], total_height |-> total[2],
     new_width |-> new[1], new_height |-> new[2],
     paste_x |-> (rin.target_width - new[1]) \div 2,
     paste_y |-> (rin.target_height - new[2]) \div 2,
     saved |-> saved]

\* lines 32-90: the images are joined, scaled, centred and saved
ResizeAndSave ==
    /\ rpc = "call"
    /\ LET total == joined_size(rin.w1, rin.h1, rin.w2, rin.h2, rin.orientation)
           new == scaled_size(total[1], total[2], rin.target_width, rin.target_height)
       IN  /\ new[1] >= 1 /\ new[2] >= 1
           /\ rout' = Scaled(total, new, TRUE)
    /\ rpc' = "done"
    /\ UNCHANGED rin
    /\ UNCHANGED <<radarVars, joinVars, mainVars>>

\* lines 32-73 and 91-93: resize refuses a size with a zero side (ValueError,
\* raised after the sizes were computed); the function returns False
ResizeRaises ==
    /\ rpc = "call"
    /\ LET total == joined_size(rin.w1, rin.h1, rin.w2, rin.h2, rin.orientation)
           new == scaled_size(total[1], total[2], rin.target_width, rin.target_height)
       IN  /\ new[1] < 1 \/ new[2] < 1
           /\ rout' = Scaled(total, new, FALSE)
    /\ rpc' = "done"
    /\ UNCHANGED rin
    /\ UNCHANGED <<radarVars, joinVars, mainVars>>

ResizeNext ==
    \/ ResizeAndSave
    \/ ResizeRaises

\* one call of join_and_resize_images
SpecResize == InitResize /\ [][ResizeNext]_vars

-----------------------------------------------------------------------------
(* Properties of join_and_resize_images *)

\* the scaled size fits the target, touches it on one axis, keeps the ratio
\* of the canvas within the rounding of one pixel, and is centred inside
ScaledFits ==
    LET w == rout.total_width
        h == rout.total_height
        nw == rout.new_width
        nh == rout.new_height
    IN  /\ nw <= rin.target_width /\ nh <= rin.target_height
        /\ nw = rin.target_width \/ nh = rin.target_height
        /\ \/ nw = rin.target_width /\ nw * h - nh * w >= 0 /\ nw * h - nh * w <= w
           \/ nh = rin.target_height /\ nh * w - nw * h >= 0 /\ nh * w - nw * h <= h
        /\ rout.paste_x = (rin.target_width - nw) \div 2
        /\ rout.paste_y = (rin.target_height - nh) \div 2
        /\ rout.paste_x >= 0 /\ rout.paste_y >= 0
        /\ rout.paste_x + nw <= rin.target_width
        /\ rout.paste_y + nh <= rin.target_height

\* C7 (as claimed): for every canvas and target the scaled size fits, keeps
\* the ratio, is centred inside the target, and both its sides are >= 1.
C7_ScaledFitsAndNotEmpty ==
    rpc = "done" => (ScaledFits /\ rout.new_width >= 1 /\ rout.new_height >= 1)

\* C7 (amended): the scaled size fits, keeps the ratio and is centred inside
\* the target; its sides are >= 0, and a side is 0 only when the canvas is so
\* narrow or so flat that its exact scaled value is at most 1.
C7_ScaledFits ==
    rpc = "done" =>
        /\ ScaledFits
        /\ rout.new_width >= 0 /\ rout.new_height >= 0
        /\ rout.new_width = 0 => rin.target_height * rout.total_width <= rout.total_height
        /\ rout.new_height = 0 => rin.target_width * rout.total_height <= rout.total_width
        /\ rout.saved = (rout.new_width >= 1 /\ rout.new_height >= 1)

\* a canvas wider than the target was scaled to the target's width and
\* letterboxed above and below
C7_Witness ==
    /\ rpc = "done" /\ rout.saved
    /\ rout.new_width = rin.target_width
    /\ rout.new_height >= 1 /\ rout.new_height < rin.target_height
    /\ rout.paste_y >= 1

-----------------------------------------------------------------------------
(* The script body of bom_animated_radar_scraper.py (lines 205-244) *)

radar_64_url == "https://reg.bom.gov.au/products/IDR024.loop.shtml"
radar_128_url == "https://reg.bom.gov.au/products/IDR023.loop.shtml"
gif_64_path == "temp_radar_64km.gif"
gif_128_path == "temp_radar_128km.gif"

\* the choices of --arrangement
Arrangements == {"v", "vertical", "h", "horizontal"}

\* line 211
orientation_of(arrangement) ==
    IF arrangement \in {"v", "vertical"} THEN "vertical" ELSE "horizontal"

\* line 219
output_file(o) ==
    IF o = "vertical" THEN "bom_radar_vertical_animated.gif"
    ELSE "bom_radar_horizontal_animated.gif"

Paths == {gif_64_path, gif_128_path, output_file("vertical"), output_file("horizontal")}

\* a file of the working directory: absent, not readable as an image, or an
\* animated GIF of n >= 1 frames
Unreadable == [exists |-> TRUE, readable |-> FALSE, n |-> 0]
GifOnDisk(n) == [exists |-> TRUE, readable |-> TRUE, n |-> n]
DiskFiles == {NoFile, Unreadable} \cup {GifOnDisk(n) : n \in 1 .. MaxGifFrames}

\* os.path.exists
path_exists(f) == f.exists

\* What one call of create_animated_radar leaves behind, given the file old
\* at output_gif_path: it returns False and has written nothing (lines 68-70,
\* 140-145), or it returns True and has saved the frames it assembled, at
\* least one (lines 128-139).
create_animated_radar(old) ==
    {[result |-> "False", file |-> old]}
    \cup {[result |-> "True", file |-> GifOnDisk(n)] : n \in 1 .. MaxFrames}

\* What one call of join_animated_gifs leaves behind, given the two inputs
\* and the file old at output_path: it returns False and has written nothing
\* (a file is missing or unreadable, a frame cannot be decoded, the save
\* fails: lines 201-203), or it returns True and has saved the joined frames
\* (lines 189-199).
join_animated_gifs(g1, g2, old) ==
    {[result |-> "False", file |-> old]}
    \cup IF path_exists(g1) /\ path_exists(g2) /\ g1.readable /\ g2.readable
         THEN {[result |-> "True", file |-> GifOnDisk(reconciled_frames(g1, g2))]}
         ELSE {}

\* the test of line 225, were one success enough
either_succeeded(s64, s128) == s64 = "True" \/ s128 = "True"

\* line 225: success_64 and success_128
both_succeeded(s64, s128) == s64 = "True" /\ s128 = "True"

InitMain ==
    /\ mpc = "start"
    /\ args \in [dev : BOOLEAN, arrangement : Arrangements]
    /\ files \in [Paths -> DiskFiles]
    /\ calls = <<>> /\ written = {}
    /\ success_64 = Running /\ success_128 = Running /\ join_success = Running
    /\ exit_status = <<>>
    /\ RadarIdle /\ JoinIdle /\ ResizeIdle

\* line 222
Create64 ==
    /\ mpc = "start" /\ ~args.dev
    /\ \E r \in create_animated_radar(files[gif_64_path]) :
          /\ success_64' = r.result
          /\ files' = [files EXCEPT ![gif_64_path] = r.file]
          /\ written' = IF r.result = "True" THEN written \cup {gif_64_path}
                        ELSE written
    /\ calls' = Append(calls, <<"create_animated_radar", radar_64_url, gif_64_path>>)
    /\ mpc' = "made_64"
    /\ UNCHANGED <<args, success_128, join_success, exit_status>>
    /\ UNCHANGED <<radarVars, joinVars, resizeVars>>

\* line 223
Create128 ==
    /\ mpc = "made_64"
    /\ \E r \in create_animated_radar(files[gif_128_path]) :
          /\ success_128' = r.result
          /\ files' = [files EXCEPT ![gif_128_path] = r.file]
          /\ written' = IF r.result = "True" THEN written \cup {gif_128_path}
                        ELSE written
    /\ calls' = Append(calls, <<"create_animated_radar", radar_128_url, gif_128_path>>)
    /\ mpc' = "made_128"
    /\ UNCHANGED <<args, success_64, join_success, exit_status>>
    /\ UNCHANGED <<radarVars, joinVars, resizeVars>>

\* lines 225-227
CheckSequences ==
    /\ mpc = "made_128"
    /\ IF both_succeeded(success_64, success_128)
       THEN mpc' = "join" /\ exit_status' = exit_status
       ELSE mpc' = "exited" /\ exit_status' = <<1>>
    /\ UNCHANGED <<args, files, calls, written, success_64, success_128, join_success>>
    /\ UNCHANGED <<radarVars, joinVars, resizeVars>>

\* lines 228-233: --dev skips the scraping and needs both temporary files
DevModeCheck ==
    /\ mpc = "start" /\ args.dev
    /\ IF ~path_exists(files[gif_64_path]) \/ ~path_exists(files[gif_128_path])
       THEN mpc' = "exited" /\ exit_status' = <<1>>
       ELSE mpc' = "join" /\ exit_status' = exit_status
    /\ UNCHANGED <<args, files, calls, written, success_64, success_128, join_success>>
    /\ UNCHANGED <<radarVars, joinVars, resizeVars>>

\* line 235
Join ==
    /\ mpc = "join"
    /\ LET out == output_file(orientation_of(args.arrangement))
       IN  /\ \E r \in join_animated_gifs(files[gif_64_path], files[gif_128_path],
                                          files[out]) :
                 /\ join_success' = r.result
                 /\ files' = [files EXCEPT ![out] = r.file]
                 /\ written' = IF r.result = "True" THEN written \cup {out}
                               ELSE written
           /\ calls' = Append(calls, <<"join_animated_gifs", gif_64_path,
                                       gif_128_path, out,
                                       orientation_of(args.arrangement)>>)
    /\ mpc' = "joined"
    /\ UNCHANGED <<args, success_64, success_128, exit_status>>
    /\ UNCHANGED <<radarVars, joinVars, resizeVars>>

\* lines 237-244
Exit ==
    /\ mpc = "joined"
    /\ exit_status' = IF join_success = "True" THEN <<0>> ELSE <<1>>
    /\ mpc' = "exited"
    /\ UNCHANGED <<args, files, calls, written, success_64, success_128, join_success>>
    /\ UNCHANGED <<radarVars, joinVars, resizeVars>>

MainNext ==
    \/ Create64
    \/ Create128
    \/ CheckSequences
    \/ DevModeCheck
    \/ Join
    \/ Exit

\* one run of the script
SpecMain == InitMain /\ [][MainNext]_vars

-----------------------------------------------------------------------------
(* Properties of the script body *)

\* the calls of a run without --dev, all made
AllCalls ==
    LET o == orientation_of(args.arrangement)
    IN  << <<"create_animated_radar", radar_64_url, gif_64_path>>,
           <<"create_animated_radar", radar_128_url, gif_128_path>>,
           <<"join_animated_gifs", gif_64_path, gif_128_path, output_file(o), o>> >>

JoinAttempted == Len(calls) = 3

\* C12: in a run without --dev both sequences are attempted, the 64 km one
\* first and the 128 km one second, whatever the first returned; the join is
\* attempted only after both returned success; the joined output file is not
\* written in a run where a sequence failed; and the process exits with
\* status 0 exactly when both sequences and the join succeeded, with status 1
\* otherwise.
C12_MainOrchestration ==
    ~args.dev =>
        /\ Len(calls) <= 3 /\ calls = SubSeq(AllCalls, 1, Len(calls))
        /\ mpc = "exited" => Len(calls) >= 2
        /\ JoinAttempted => both_succeeded(success_64, success_128)
        /\ (success_64 = "False" \/ success_128 = "False")
              => /\ ~JoinAttempted
                 /\ written \cap {output_file("vertical"), output_file("horizontal")} = {}
        /\ mpc = "exited"
              => /\ exit_status \in {<<0>>, <<1>>}
                 /\ exit_status = <<0>>
                       <=> /\ success_64 = "True" /\ success_128 = "True"
                           /\ join_success = "True"
                 /\ exit_status = <<0>>
                       => output_file(orientation_of(args.arrangement)) \in written
        /\ mpc # "exited" => exit_status = <<>>

\* a run without --dev has made its three calls and exited with status 0
C12_Witness ==
    /\ ~args.dev /\ mpc = "exited" /\ exit_status = <<0>>
    /\ JoinAttempted /\ success_64 = "True" /\ success_128 = "True"

=============================================================================
